---- MODULE Spec2Model ----
(***************************************************************************)
(* Model of the S3 client: DefaultClient.ReadFiles (bounded fan-out over a *)
(* key list, one goroutine per key, shared sink and error channel) and     *)
(* DefaultClient.ReadFile (one producer goroutine, a line channel and an   *)
(* error channel), together with the helpers both rely on: GetFileReader   *)
(* and the line scanner (bufio.Scanner with bufio.ScanLines).              *)
(*                                                                         *)
(* Bytes are integers (10 is '\n', 13 is '\r'), byte streams and names are *)
(* sequences.  Unbuffered channels hold no state: a send and its receive   *)
(* are one step, enabled when the sender stands at the send and the        *)
(* receiver at a matching receive.                                         *)
(***************************************************************************)
EXTENDS Integers, Sequences, FiniteSets, TLC

\* ------------------------------------------------------------------------
\* Bounds of the model
\* ------------------------------------------------------------------------
MaxFiles == 2
MaxConcurrency == 2
MaxBuf == 3
MaxLen == 3

\* ------------------------------------------------------------------------
\* Bytes, names
\* ------------------------------------------------------------------------
NL == 10
CR == 13

Min(a, b) == IF a < b THEN a ELSE b

\* Positions of x in the sequence s.
IndexesOf(s, x) == {i \in 1..Len(s) : s[i] = x}

\* strings.ToLower, on the letters the names of the model use.
ToLowerChar(c) ==
    CASE c = "G" -> "g"
      [] c = "Z" -> "z"
      [] c = "T" -> "t"
      [] c = "A" -> "a"
      [] c = "R" -> "r"
      [] c = "I" -> "i"
      [] c = "P" -> "p"
      [] OTHER -> c

ToLower(s) == [i \in 1..Len(s) |-> ToLowerChar(s[i])]

\* filepath.Ext: the suffix beginning at the final dot of the final
\* element of the path; empty when there is no dot.
Ext(name) ==
    LET stops == {i \in 1..Len(name) : name[i] = "." \/ name[i] = "/"}
        last == IF stops = {} THEN 0
                ELSE CHOOSE i \in stops : \A j \in stops : j <= i
    IN IF last = 0 \/ name[last] = "/" THEN <<>>
       ELSE SubSeq(name, last, Len(name))

\* ------------------------------------------------------------------------
\* Readers.  A reader is a byte stream that yields data up to position
\* failAt and then fails with rerr; failAt = -1 is a stream that ends with
\* io.EOF after its last byte.
\* ------------------------------------------------------------------------
NoFail == -1

Reader(kind, data, failAt, rerr) ==
    [kind |-> kind, data |-> data, failAt |-> failAt, rerr |-> rerr]

\* The bytes a reader delivers before it ends or fails.
Avail(r) == IF r.failAt = NoFail THEN Len(r.data) ELSE Min(r.failAt, Len(r.data))

\* ------------------------------------------------------------------------
\* GetFileReader
\* ------------------------------------------------------------------------
gzipID1 == 31
gzipID2 == 139
gzipDeflate == 8
gzipHeaderLen == 10

\* gzip.NewReader on a fully buffered body: it reads the 10 byte header
\* first (io.EOF on an empty body, io.ErrUnexpectedEOF on a short one) and
\* then checks the two magic bytes and the method (gzip.ErrHeader).
GzipHeaderErr(body) ==
    IF Len(body) = 0 THEN "EOF"
    ELSE IF Len(body) < gzipHeaderLen THEN "ErrUnexpectedEOF"
    ELSE IF body[1] # gzipID1 \/ body[2] # gzipID2 \/ body[3] # gzipDeflate
         THEN "ErrHeader"
    ELSE "nil"

\* The member that follows a valid header, in the model: the stored bytes,
\* each written as its value plus one, then one byte holding the length.
\* Inflating undoes it; a wrong length byte is the checksum error that the
\* gzip reader reports when the stream is read to its end.
GzipPayload(body) ==
    LET n == Len(body) - gzipHeaderLen - 1
    IN IF n < 0 THEN <<>> ELSE [i \in 1..n |-> body[gzipHeaderLen + i] - 1]

GzipTrailerOk(body) ==
    /\ Len(body) > gzipHeaderLen
    /\ body[Len(body)] = Len(body) - gzipHeaderLen - 1

\* GetFileReader that compares the extension as it is written.
GetFileReader_CaseSensitive(filename, r) ==
    LET extension == Ext(filename)
    IN IF extension = <<".", "g", "z">> \/ extension = <<".", "g", "z", "i", "p">>
       THEN \* io.ReadAll, then gzip.NewReader on the buffered body
            IF r.failAt # NoFail /\ r.failAt <= Len(r.data)
            THEN [err |-> r.rerr, reader |-> Reader("none", <<>>, NoFail, "nil")]
            ELSE LET herr == GzipHeaderErr(r.data)
                 IN IF herr = "ErrHeader"
                    THEN [err |-> "nil", reader |-> Reader("nop", r.data, NoFail, "nil")]
                    ELSE IF herr # "nil"
                    THEN [err |-> herr, reader |-> Reader("none", <<>>, NoFail, "nil")]
                    ELSE [err |-> "nil",
                          reader |-> IF GzipTrailerOk(r.data)
                                     THEN Reader("gzip", GzipPayload(r.data), NoFail, "nil")
                                     ELSE Reader("gzip", GzipPayload(r.data),
                                                 Len(GzipPayload(r.data)), "ErrChecksum")]
       ELSE IF extension = <<".", "t", "a", "r">>
       THEN \* tar.NewReader: before any call of Next the current entry is
            \* an empty regular file, whose Read returns io.EOF at once
            [err |-> "nil", reader |-> Reader("tar", <<>>, NoFail, "nil")]
       ELSE [err |-> "nil", reader |-> Reader("nop", r.data, r.failAt, r.rerr)]
\* GetFileReader(filename)(r): the decoded reader, or an error.
GetFileReader(filename, r) ==
    LET extension == ToLower(Ext(filename))
    IN IF extension = <<".", "g", "z">> \/ extension = <<".", "g", "z", "i", "p">>
       THEN \* io.ReadAll, then gzip.NewReader on the buffered body
            IF r.failAt # NoFail /\ r.failAt <= Len(r.data)
            THEN [err |-> r.rerr, reader |-> Reader("none", <<>>, NoFail, "nil")]
            ELSE LET herr == GzipHeaderErr(r.data)
                 IN IF herr = "ErrHeader"
                    THEN [err |-> "nil", reader |-> Reader("nop", r.data, NoFail, "nil")]
                    ELSE IF herr # "nil"
                    THEN [err |-> herr, reader |-> Reader("none", <<>>, NoFail, "nil")]
                    ELSE [err |-> "nil",
                          reader |-> IF GzipTrailerOk(r.data)
                                     THEN Reader("gzip", GzipPayload(r.data), NoFail, "nil")
                                     ELSE Reader("gzip", GzipPayload(r.data),
                                                 Len(GzipPayload(r.data)), "ErrChecksum")]
       ELSE IF extension = <<".", "t", "a", "r">>
       THEN \* tar.NewReader: before any call of Next the current entry is
            \* an empty regular file, whose Read returns io.EOF at once
            [err |-> "nil", reader |-> Reader("tar", <<>>, NoFail, "nil")]
       ELSE [err |-> "nil", reader |-> Reader("nop", r.data, r.failAt, r.rerr)]

\* ------------------------------------------------------------------------
\* bufio.Scanner with the ScanLines split function
\* ------------------------------------------------------------------------
startBufSize == 4096
MaxScanTokenSize == 65536

\* The scanner holds buf[start..end) of a buffer of buflen bytes; rpos is
\* the number of bytes taken from the reader so far, so the held bytes are
\* data[rpos-(end-start)+1 .. rpos].
Scanner(buflen, maxTokenSize) ==
    [buflen |-> buflen, maxTokenSize |-> maxTokenSize,
     start |-> 0, end |-> 0, rpos |-> 0, err |-> "nil"]

\* bufio.NewScanner(r)
NewScanner == Scanner(0, MaxScanTokenSize)

\* scanner.Buffer(make([]byte, 0, initialBufferSize), maxBufferSize)
ScannerBuffer(initialBufferSize, maxBufferSize) ==
    Scanner(initialBufferSize, maxBufferSize)

Held(s, r) == SubSeq(r.data, s.rpos - (s.end - s.start) + 1, s.rpos)

\* dropCR
dropCR(data) ==
    IF Len(data) > 0 /\ data[Len(data)] = CR
    THEN SubSeq(data, 1, Len(data) - 1) ELSE data

\* ScanLines(data, atEOF): advance, token and whether there is a token.
ScanLines(data, atEOF) ==
    IF atEOF /\ Len(data) = 0 THEN [advance |-> 0, has |-> FALSE, token |-> <<>>]
    ELSE LET nls == IndexesOf(data, NL)
         IN IF nls # {}
            THEN LET i == CHOOSE k \in nls : \A j \in nls : k <= j
                 IN [advance |-> i, has |-> TRUE, token |-> dropCR(SubSeq(data, 1, i - 1))]
            ELSE IF atEOF
            THEN [advance |-> Len(data), has |-> TRUE, token |-> dropCR(data)]
            ELSE [advance |-> 0, has |-> FALSE, token |-> <<>>]

\* One pass of the "must read more data" part of Scan: shift, grow the
\* buffer or fail with ErrTooLong, then read once from r.
ScanFill(s, r) ==
    LET shift == s.start > 0 /\ (s.end = s.buflen \/ s.start > s.buflen \div 2)
        s1 == IF shift THEN [s EXCEPT !.end = s.end - s.start, !.start = 0] ELSE s
    IN IF s1.end = s1.buflen /\ s1.buflen >= s1.maxTokenSize
       THEN [s1 EXCEPT !.err = "ErrTooLong"]
       ELSE LET dbl == s1.buflen * 2
                newSize == Min(IF dbl = 0 THEN startBufSize ELSE dbl, s1.maxTokenSize)
                s2 == IF s1.end = s1.buflen
                      THEN [s1 EXCEPT !.buflen = newSize,
                                      !.end = s1.end - s1.start, !.start = 0]
                      ELSE s1
                n == Min(s2.buflen - s2.end, Avail(r) - s2.rpos)
                s3 == [s2 EXCEPT !.end = s2.end + n, !.rpos = s2.rpos + n]
            IN IF n > 0 THEN s3
               ELSE IF r.failAt = NoFail THEN [s3 EXCEPT !.err = "EOF"]
               ELSE [s3 EXCEPT !.err = r.rerr]

\* scanner.Scan(): loops until it has a token or stops.  (The refilled
\* scanner of the next pass is bound through a singleton set, so that it is
\* computed once per pass.)
RECURSIVE ScannerScan(_, _)
ScannerScan(s, r) ==
    LET sp == IF s.end > s.start \/ s.err # "nil"
              THEN ScanLines(Held(s, r), s.err # "nil")
              ELSE [advance |-> 0, has |-> FALSE, token |-> <<>>]
        sa == [s EXCEPT !.start = s.start + sp.advance]
    IN IF s.err = "ErrTooLong" THEN [s |-> s, ok |-> FALSE, token |-> <<>>]
       ELSE IF sp.has THEN [s |-> sa, ok |-> TRUE, token |-> sp.token]
       ELSE IF sa.err # "nil"
       THEN [s |-> [sa EXCEPT !.start = 0, !.end = 0], ok |-> FALSE, token |-> <<>>]
       ELSE CHOOSE res \in {ScannerScan(filled, r) : filled \in {ScanFill(sa, r)}} : TRUE

\* scanner.Err()
ScannerErr(s) == IF s.err = "EOF" THEN "nil" ELSE s.err

\* ------------------------------------------------------------------------
\* The object store and the inputs of ReadFiles
\* ------------------------------------------------------------------------
Bucket == "bucket"

KeyA == <<"a", ".", "l", "o", "g">>
KeyB == <<"b", ".", "G", "Z">>
Keys == {KeyA, KeyB}

\* The bytes stored under each key: "a\nb\n" under a.log, and ten plain
\* bytes (no gzip header) under b.GZ.
Store(key) ==
    IF key = KeyA THEN <<97, NL, 98, NL>>
    ELSE <<48, 49, 50, 51, 52, 53, 54, 55, 56, 57>>

\* Where the body of a fetched object may fail while it is read.
ReadFailAt == {NoFail, 3}

RECURSIVE SeqsUpTo(_, _)
SeqsUpTo(S, n) ==
    IF n = 0 THEN {<<>>}
    ELSE LET shorter == SeqsUpTo(S, n - 1)
         IN shorter \cup {Append(q, x) : q \in {t \in shorter : Len(t) = n - 1}, x \in S}

\* resp.ContentType: a value, or nil when the store declares none.
ContentTypes == {"text/csv", "absent"}

KeyLists == SeqsUpTo(Keys, MaxFiles)
Concurrencies == (0 - 1)..MaxConcurrency

VARIABLES
    files,        \* ReadFiles: the key list
    concurrency,  \* ReadFiles: the requested concurrency
    cancelled,    \* ctx.Done() is closed
    mpc,          \* position of the goroutine that runs ReadFiles
    idx,          \* number of keys the range loop has dispatched
    poolSize,     \* capacity of semaphore
    semaphore,    \* number of elements held in the semaphore channel
    wg,           \* counter of the WaitGroup
    tasks,        \* per entry of files: the state of its goroutine
    wpc,          \* position of the goroutine that runs wg.Wait()
    doneClosed,   \* close(done) has run
    ret,          \* the value ReadFiles returned ("none" before it returns)
    panicked,     \* a goroutine of the run panicked
    ch,           \* the records the consumer received from the sink, in order
    errLog,       \* per entry of files: the errors the select loop logged
    getCalls      \* per entry of files: the number of GetObject calls

VARIABLES
    file,               \* ReadFile: the key
    object,             \* ReadFile: the bytes stored under the key
    initialBufferSize,  \* ReadFile: capacity of the scanner's first buffer
    maxBufferSize,      \* ReadFile: the scanner's maximum token size
    producer,           \* ReadFile: the state of the goroutine it starts
    out,                \* ReadFile: the lines the caller received, in order
    outClosed,          \* ReadFile: close(out) has run
    errChan,            \* ReadFile: the errors the caller received, in order
    rfCtxDone,          \* ReadFile: the ctx of the call is cancelled
    rfReceiving,        \* ReadFile: the caller still receives from the channels
    rfMode              \* ReadFile: how the caller receives: "select" on both
                        \* channels, or "drain" of out, then "recvErr", "released"

VARIABLES
    gfName,    \* GetFileReader: the filename
    gfInput,   \* GetFileReader: the reader handed to the returned function
    gfResult   \* GetFileReader: what the returned function returned

VARIABLES
    lfPattern,  \* ListFiles: the pattern
    lfObjects,  \* ListFiles: the keys stored in the bucket, in listing order
    lfpc,       \* ListFiles: position of the call
    lfPrefix,   \* ListFiles: the prefix sent with the listing request
    lfPages,    \* ListFiles: the pages fetched so far
    lfFiles,    \* ListFiles: the keys appended to files so far
    lfRet       \* ListFiles: the returned pair ("none" before it returns)

gfVars == <<gfName, gfInput, gfResult>>

lfVars == <<lfPattern, lfObjects, lfpc, lfPrefix, lfPages, lfFiles, lfRet>>

helperVars == <<gfVars, lfVars>>

callerVars == <<rfCtxDone, rfReceiving, rfMode>>

rfVars == <<file, object, initialBufferSize, maxBufferSize, producer, out,
            outClosed, errChan, callerVars>>

fanVars == <<files, concurrency, cancelled, mpc, idx, poolSize, semaphore, wg,
             tasks, wpc, doneClosed, ret, panicked, ch, errLog, getCalls>>

NoReader == Reader("none", <<>>, NoFail, "nil")

IdleTask ==
    [pc |-> "idle", body |-> NoReader, reader |-> NoReader, sc |-> NewScanner,
     token |-> <<>>, err |-> "nil", fetch |-> "none", bodyClosed |-> FALSE, readerClosed |-> FALSE,
     readerLogged |-> FALSE, contentType |-> "none", panicking |-> FALSE]

Entries == 1..Len(files)

InitReadFiles ==
    /\ files \in KeyLists
    /\ concurrency \in Concurrencies
    /\ cancelled = FALSE
    /\ mpc = "start"
    /\ idx = 0
    /\ poolSize = 0
    /\ semaphore = 0
    /\ wg = 0
    /\ tasks = [i \in 1..Len(files) |-> IdleTask]
    /\ wpc = "idle"
    /\ doneClosed = FALSE
    /\ ret = "none"
    /\ panicked = FALSE
    /\ ch = <<>>
    /\ errLog = [i \in 1..Len(files) |-> <<>>]
    /\ getCalls = [i \in 1..Len(files) |-> 0]
\* isCritical that takes a fetch error for critical.
isCritical_Fetch(err) == err = "fetchErr"

\* isCritical: no error is critical.
isCritical(err) == FALSE

\* The capacity ReadFiles gives the semaphore.
PoolSize(c) == IF c = 0 THEN 1 ELSE c

\* ---- the goroutine that runs ReadFiles ----

\* make(chan struct{}, poolSize): panics on a negative size.
MakeSemaphore ==
    /\ ~panicked
    /\ mpc = "start"
    /\ poolSize' = PoolSize(concurrency)
    /\ IF PoolSize(concurrency) < 0
       THEN /\ mpc' = "panicked"
            /\ panicked' = TRUE
       ELSE /\ mpc' = "range"
            /\ UNCHANGED panicked
    /\ UNCHANGED <<helperVars, rfVars, files, concurrency, cancelled, idx, semaphore, wg, tasks, wpc,
                   doneClosed, ret, ch, errLog, getCalls>>
\* Dispatch without the acquisition of a slot.
Dispatch_NoAcquire ==
    /\ mpc = "range"
    /\ idx < Len(files)
    /\ semaphore' = semaphore + 1
    /\ wg' = wg + 1
    /\ idx' = idx + 1
    /\ tasks' = [tasks EXCEPT ![idx + 1].pc = "GetObject"]
    /\ UNCHANGED <<helperVars, rfVars, files, concurrency, cancelled, mpc, poolSize, wpc, doneClosed,
                   ret, panicked, ch, errLog, getCalls>>

\* One iteration of the range loop: semaphore <- struct{}{}, wg.Add(1), go.
Dispatch ==
    /\ ~panicked
    /\ mpc = "range"
    /\ idx < Len(files)
    /\ semaphore < poolSize
    /\ semaphore' = semaphore + 1
    /\ wg' = wg + 1
    /\ idx' = idx + 1
    /\ tasks' = [tasks EXCEPT ![idx + 1].pc = "GetObject"]
    /\ UNCHANGED <<helperVars, rfVars, files, concurrency, cancelled, mpc, poolSize, wpc, doneClosed,
                   ret, panicked, ch, errLog, getCalls>>

\* The range loop is over: start the goroutine that waits, enter the select loop.
StartWaiter ==
    /\ ~panicked
    /\ mpc = "range"
    /\ idx = Len(files)
    /\ wpc' = "Wait"
    /\ mpc' = "select"
    /\ UNCHANGED <<helperVars, rfVars, files, concurrency, cancelled, idx, poolSize, semaphore, wg, tasks,
                   doneClosed, ret, panicked, ch, errLog, getCalls>>

\* SelectCtxDone that closes done before it returns.
SelectCtxDone_Close ==
    /\ ~panicked
    /\ mpc = "select"
    /\ cancelled
    /\ ret' = "ctxErr"
    /\ mpc' = "returned"
    /\ doneClosed' = TRUE
    /\ UNCHANGED <<helperVars, rfVars, files, concurrency, cancelled, idx, poolSize, semaphore, wg, tasks,
                   wpc, panicked, ch, errLog, getCalls>>

\* case <-ctx.Done(): return ctx.Err()
SelectCtxDone ==
    /\ ~panicked
    /\ mpc = "select"
    /\ cancelled
    /\ ret' = "ctxErr"
    /\ mpc' = "returned"
    /\ UNCHANGED <<helperVars, rfVars, files, concurrency, cancelled, idx, poolSize, semaphore, wg, tasks,
                   wpc, doneClosed, panicked, ch, errLog, getCalls>>

\* case <-done: close(done); return nil.  The receive completes the
\* waiter's send.
SelectDone ==
    /\ ~panicked
    /\ mpc = "select"
    /\ wpc = "sendDone"
    /\ wpc' = "exited"
    /\ doneClosed' = TRUE
    /\ ret' = "nil"
    /\ mpc' = "returned"
    /\ UNCHANGED <<helperVars, rfVars, files, concurrency, cancelled, idx, poolSize, semaphore, wg, tasks,
                   panicked, ch, errLog, getCalls>>

\* AfterSend with a decode error that leaves without closing the body.
AfterSend_SkipClose(pc) ==
    CASE pc = "sendFetchErr" -> "wgDone"
      [] pc = "sendDecodeErr" -> "wgDone"
      [] pc = "sendScanErr" -> "closeReader"
      [] pc = "sendCloseErr" -> "wgDone"
\* Where a task continues after its send on errChan was received: the
\* return runs the deferred calls registered so far.
AfterSend(pc) ==
    CASE pc = "sendFetchErr" -> "wgDone"
      [] pc = "sendDecodeErr" -> "closeBody"
      [] pc = "sendScanErr" -> "closeReader"
      [] pc = "sendCloseErr" -> "wgDone"

SendErrPcs == {"sendFetchErr", "sendDecodeErr", "sendScanErr", "sendCloseErr"}

\* SelectErr that receives the error and does not log it.
SelectErr_NoLog(i) ==
    /\ ~panicked
    /\ mpc = "select"
    /\ tasks[i].pc \in SendErrPcs
    /\ tasks' = [tasks EXCEPT ![i].pc = AfterSend(tasks[i].pc)]
    /\ IF isCritical(tasks[i].err)
       THEN /\ ret' = tasks[i].err
            /\ mpc' = "returned"
       ELSE UNCHANGED <<ret, mpc>>
    /\ UNCHANGED <<helperVars, rfVars, files, concurrency, cancelled, idx, poolSize, semaphore, wg, wpc,
                   doneClosed, panicked, ch, errLog, getCalls>>

\* case err := <-errChan: log it; return it if it is critical.
SelectErr(i) ==
    /\ ~panicked
    /\ mpc = "select"
    /\ tasks[i].pc \in SendErrPcs
    /\ errLog' = [errLog EXCEPT ![i] = Append(@, tasks[i].err)]
    /\ tasks' = [tasks EXCEPT ![i].pc = AfterSend(tasks[i].pc)]
    /\ IF isCritical(tasks[i].err)
       THEN /\ ret' = tasks[i].err
            /\ mpc' = "returned"
       ELSE UNCHANGED <<ret, mpc>>
    /\ UNCHANGED <<helperVars, rfVars, files, concurrency, cancelled, idx, poolSize, semaphore, wg, wpc,
                   doneClosed, panicked, ch, getCalls>>

\* ---- the goroutine that waits for the tasks ----
\* WaitReturn that does not wait for the counter to reach zero.
WaitReturn_NoWait ==
    /\ wpc = "Wait"
    /\ wpc' = "sendDone"
    /\ UNCHANGED <<helperVars, rfVars, files, concurrency, cancelled, mpc, idx, poolSize, semaphore, wg,
                   tasks, doneClosed, ret, panicked, ch, errLog, getCalls>>

\* wg.Wait() returns when the counter is zero.
WaitReturn ==
    /\ ~panicked
    /\ wpc = "Wait"
    /\ wg = 0
    /\ wpc' = "sendDone"
    /\ UNCHANGED <<helperVars, rfVars, files, concurrency, cancelled, mpc, idx, poolSize, semaphore, wg,
                   tasks, doneClosed, ret, panicked, ch, errLog, getCalls>>

\* ---- the context ----

\* The context is cancelled while ReadFiles runs.
Cancel ==
    /\ ~panicked
    /\ ~cancelled
    /\ mpc \in {"start", "range", "select"}
    /\ cancelled' = TRUE
    /\ UNCHANGED <<helperVars, rfVars, files, concurrency, mpc, idx, poolSize, semaphore, wg, tasks, wpc,
                   doneClosed, ret, panicked, ch, errLog, getCalls>>

\* ---- the goroutine of entry i of files ----

coordVars == <<files, concurrency, cancelled, mpc, idx, poolSize, wpc, doneClosed,
               ret, panicked>>
\* GetObject that is called again after a failure.
GetObject_Retry(i) ==
    /\ tasks[i].pc = "GetObject"
    /\ getCalls' = [getCalls EXCEPT ![i] = @ + 1]
    /\ \/ /\ getCalls[i] = 0
          /\ UNCHANGED tasks
       \/ tasks' = [tasks EXCEPT ![i].pc = "sendFetchErr", ![i].err = "fetchErr",
                               ![i].fetch = "failed"]
       \/ \E f \in ReadFailAt, ct \in ContentTypes :
             tasks' = [tasks EXCEPT
                          ![i].pc = "GetFileReader", ![i].fetch = "ok",
                          ![i].body = Reader("body", Store(files[i]), f, "readErr"),
                          ![i].contentType = ct]
    /\ UNCHANGED <<helperVars, rfVars, coordVars, semaphore, wg, ch, errLog>>

\* c.Svc.GetObject: it fails, or it returns the stored bytes as a body
\* that may fail while it is read.
GetObject(i) ==
    /\ ~panicked
    /\ tasks[i].pc = "GetObject"
    /\ getCalls' = [getCalls EXCEPT ![i] = @ + 1]
    /\ \/ tasks' = [tasks EXCEPT ![i].pc = "sendFetchErr", ![i].err = "fetchErr",
                               ![i].fetch = "failed"]
       \/ \E f \in ReadFailAt, ct \in ContentTypes :
             tasks' = [tasks EXCEPT
                          ![i].pc = "GetFileReader", ![i].fetch = "ok",
                          ![i].body = Reader("body", Store(files[i]), f, "readErr"),
                          ![i].contentType = ct]
    /\ UNCHANGED <<helperVars, rfVars, coordVars, semaphore, wg, ch, errLog>>

\* In a task t: reader, err := GetFileReader(filename)(resp.Body), then the
\* scanner sc is made for the reader.
DecodeStep(t, filename, sc) ==
    LET res == GetFileReader(filename, t.body)
    IN IF res.err # "nil"
       THEN [t EXCEPT !.pc = "sendDecodeErr", !.err = res.err]
       ELSE [t EXCEPT !.pc = "Scan", !.reader = res.reader, !.sc = sc]

\* The log line that dereferences resp.ContentType: without a content type
\* the goroutine panics and runs the functions it deferred so far.  Then
\* GetFileReader(filename)(resp.Body), bufio.NewScanner(reader).
Decode(i) ==
    /\ ~panicked
    /\ tasks[i].pc = "GetFileReader"
    /\ tasks' = [tasks EXCEPT ![i] =
                    IF tasks[i].contentType = "absent"
                    THEN [tasks[i] EXCEPT !.pc = "closeBody", !.panicking = TRUE]
                    ELSE DecodeStep(tasks[i], files[i], NewScanner)]
    /\ UNCHANGED <<helperVars, rfVars, coordVars, semaphore, wg, ch, errLog, getCalls>>

\* The loop head in a task t: scanner.Scan(), and scanner.Err() when it
\* returns false.
ScanStep(t) ==
    LET res == ScannerScan(t.sc, t.reader)
    IN IF res.ok
       THEN [t EXCEPT !.pc = "sendLine", !.sc = res.s, !.token = res.token]
       ELSE IF ScannerErr(res.s) # "nil"
       THEN [t EXCEPT !.pc = "sendScanErr", !.sc = res.s, !.err = ScannerErr(res.s)]
       ELSE [t EXCEPT !.pc = "closeReader", !.sc = res.s]

\* for scanner.Scan() { ... }; if err := scanner.Err(); err != nil { ... }
Scan(i) ==
    /\ ~panicked
    /\ tasks[i].pc = "Scan"
    /\ tasks' = [tasks EXCEPT ![i] = ScanStep(tasks[i])]
    /\ UNCHANGED <<helperVars, rfVars, coordVars, semaphore, wg, ch, errLog, getCalls>>

\* Message that takes the key from the range variable of the loop, which
\* by then stands at the last key.
Message_SharedName(filename, text) ==
    [raw |-> text, bucket |-> Bucket, file |-> files[Len(files)]]

\* The record a task sends for a line.
Message(filename, text) == [raw |-> text, bucket |-> Bucket, file |-> filename]
\* SendLine that drops the record when the consumer is not ready.
SendLine_NonBlocking(i) ==
    /\ tasks[i].pc = "sendLine"
    /\ \/ ch' = Append(ch, Message(files[i], tasks[i].token))
       \/ UNCHANGED ch
    /\ tasks' = [tasks EXCEPT ![i].pc = "Scan"]
    /\ UNCHANGED <<helperVars, rfVars, coordVars, semaphore, wg, errLog, getCalls>>

\* ch <- Message{...}: the consumer of the sink receives the record.
SendLine(i) ==
    /\ ~panicked
    /\ tasks[i].pc = "sendLine"
    /\ ch' = Append(ch, Message(files[i], tasks[i].token))
    /\ tasks' = [tasks EXCEPT ![i].pc = "Scan"]
    /\ UNCHANGED <<helperVars, rfVars, coordVars, semaphore, wg, errLog, getCalls>>

\* Whether closing a reader of this kind can fail: only the gzip reader's
\* Close returns an error, io.NopCloser never does.
CloseErrs(kind) == IF kind = "gzip" THEN BOOLEAN ELSE {FALSE}

\* deferred reader.Close(): an error is logged.
CloseReader(i) ==
    /\ ~panicked
    /\ tasks[i].pc = "closeReader"
    /\ \E failed \in CloseErrs(tasks[i].reader.kind) :
          tasks' = [tasks EXCEPT ![i].pc = "closeBody", ![i].readerClosed = TRUE,
                                 ![i].readerLogged = failed]
    /\ UNCHANGED <<helperVars, rfVars, coordVars, semaphore, wg, ch, errLog, getCalls>>

\* deferred Body.Close(): an error is sent on errChan.
CloseBody(i) ==
    /\ ~panicked
    /\ tasks[i].pc = "closeBody"
    /\ \E failed \in BOOLEAN :
          tasks' = [tasks EXCEPT ![i].pc = IF failed THEN "sendCloseErr" ELSE "wgDone",
                                 ![i].err = IF failed THEN "closeErr" ELSE @,
                                 ![i].bodyClosed = TRUE]
    /\ UNCHANGED <<helperVars, rfVars, coordVars, semaphore, wg, ch, errLog, getCalls>>

\* deferred wg.Done()
WgDone(i) ==
    /\ ~panicked
    /\ tasks[i].pc = "wgDone"
    /\ wg' = wg - 1
    /\ tasks' = [tasks EXCEPT ![i].pc = "release"]
    /\ UNCHANGED <<helperVars, rfVars, coordVars, semaphore, ch, errLog, getCalls>>

\* Release that leaves the slot taken.
Release_Keep(i) ==
    /\ ~panicked
    /\ tasks[i].pc = "release"
    /\ tasks' = [tasks EXCEPT ![i].pc = "exited"]
    /\ panicked' = tasks[i].panicking
    /\ UNCHANGED <<helperVars, rfVars, files, concurrency, cancelled, mpc, idx, poolSize,
                   wpc, doneClosed, ret, wg, ch, errLog, getCalls, semaphore>>

\* deferred <-semaphore; a goroutine that was panicking now ends the
\* process.
Release(i) ==
    /\ ~panicked
    /\ tasks[i].pc = "release"
    /\ semaphore > 0
    /\ semaphore' = semaphore - 1
    /\ tasks' = [tasks EXCEPT ![i].pc = "exited"]
    /\ panicked' = tasks[i].panicking
    /\ UNCHANGED <<helperVars, rfVars, files, concurrency, cancelled, mpc, idx, poolSize,
                   wpc, doneClosed, ret, wg, ch, errLog, getCalls>>

Task(i) ==
    \/ GetObject(i)
    \/ Decode(i)
    \/ Scan(i)
    \/ CloseReader(i)
    \/ CloseBody(i)
    \/ WgDone(i)
    \/ Release(i)

Coordinator ==
    \/ MakeSemaphore
    \/ Dispatch
    \/ StartWaiter
    \/ SelectCtxDone
    \/ SelectDone
    \/ \E i \in Entries : SelectErr(i)

\* ------------------------------------------------------------------------
\* ReadFile
\* ------------------------------------------------------------------------
Bytes == {97, NL, CR}
Contents == SeqsUpTo(Bytes, MaxLen)

\* A gzip stream of the model for a payload: header, member, trailer.
Gzip(payload) ==
    <<gzipID1, gzipID2, gzipDeflate, 0, 0, 0, 0, 0, 0, 255>>
        \o [i \in 1..Len(payload) |-> payload[i] + 1] \o <<Len(payload)>>

\* The objects ReadFile is run on: plain bytes under a.log; under b.GZ a
\* gzip stream, or plain bytes (the transport decompressed them).
Objects ==
    [file : {KeyA, KeyB}, bytes : Contents]
        \cup [file : {KeyB}, bytes : {Gzip(c) : c \in Contents}]

BufferSizes == 0..(MaxBuf + 1)

IdleReadFiles ==
    /\ files = <<>>
    /\ concurrency = 0
    /\ cancelled = FALSE
    /\ mpc = "idle"
    /\ idx = 0
    /\ poolSize = 0
    /\ semaphore = 0
    /\ wg = 0
    /\ tasks = <<>>
    /\ wpc = "idle"
    /\ doneClosed = FALSE
    /\ ret = "none"
    /\ panicked = FALSE
    /\ ch = <<>>
    /\ errLog = <<>>
    /\ getCalls = <<>>

IdleReadFile ==
    /\ file = <<>>
    /\ object = <<>>
    /\ initialBufferSize = 0
    /\ maxBufferSize = 0
    /\ producer = IdleTask
    /\ out = <<>>
    /\ outClosed = FALSE
    /\ errChan = <<>>
    /\ rfCtxDone = FALSE
    /\ rfReceiving = TRUE
    /\ rfMode = "select"

\* ReadFile makes the channels, starts the goroutine and returns.
InitReadFile ==
    /\ \E o \in Objects : file = o.file /\ object = o.bytes
    /\ initialBufferSize \in BufferSizes
    /\ maxBufferSize \in 1..MaxBuf
    /\ producer = [IdleTask EXCEPT !.pc = "GetObject"]
    /\ out = <<>>
    /\ outClosed = FALSE
    /\ errChan = <<>>
    /\ rfCtxDone = FALSE
    /\ rfReceiving = TRUE
    /\ rfMode = "select"
\* RFGetObject that goes on after a failure instead of returning.
RFGetObject_NoReturn ==
    /\ producer.pc = "GetObject"
    /\ \/ /\ errChan' = Append(errChan, "fetchErr")
          /\ producer' = [producer EXCEPT
                             !.pc = "GetFileReader", !.err = "fetchErr", !.fetch = "failed",
                             !.body = Reader("body", object, NoFail, "readErr")]
       \/ /\ \E f \in ReadFailAt :
                producer' = [producer EXCEPT
                                !.pc = "GetFileReader", !.fetch = "ok",
                                !.body = Reader("body", object, f, "readErr")]
          /\ UNCHANGED errChan
    /\ UNCHANGED <<helperVars, fanVars, callerVars, file, object, initialBufferSize, maxBufferSize, out,
                   outClosed>>

\* c.Svc.GetObject(ctx, ...): the only use ReadFile makes of ctx; a request
\* made with a cancelled ctx fails.
RFGetObject ==
    /\ producer.pc = "GetObject"
    /\ \/ producer' = [producer EXCEPT !.pc = "sendFetchErr", !.err = "fetchErr",
                                       !.fetch = "failed"]
       \/ \E f \in {g \in ReadFailAt : ~rfCtxDone} :
             producer' = [producer EXCEPT
                             !.pc = "GetFileReader", !.fetch = "ok",
                             !.body = Reader("body", object, f, "readErr")]
    /\ UNCHANGED <<helperVars, fanVars, callerVars, file, object, initialBufferSize, maxBufferSize, out,
                   outClosed, errChan>>

\* GetFileReader(file)(resp.Body), bufio.NewScanner(reader), scanner.Buffer
RFDecode ==
    /\ producer.pc = "GetFileReader"
    /\ producer' = DecodeStep(producer, file,
                              ScannerBuffer(initialBufferSize, maxBufferSize))
    /\ UNCHANGED <<helperVars, fanVars, callerVars, file, object, initialBufferSize, maxBufferSize, out,
                   outClosed, errChan>>

\* for scanner.Scan() { ... }; if err := scanner.Err(); err != nil { ... }
RFScan ==
    /\ producer.pc = "Scan"
    /\ producer' = ScanStep(producer)
    /\ UNCHANGED <<helperVars, fanVars, callerVars, file, object, initialBufferSize, maxBufferSize, out,
                   outClosed, errChan>>

\* out <- scanner.Text(): the caller receives the line.
RFSendLine ==
    /\ producer.pc = "sendLine"
    /\ rfReceiving
    /\ rfMode \in {"select", "drain"}
    /\ out' = Append(out, producer.token)
    /\ producer' = [producer EXCEPT !.pc = "Scan"]
    /\ UNCHANGED <<helperVars, fanVars, callerVars, file, object, initialBufferSize, maxBufferSize,
                   outClosed, errChan>>

\* Where the producer continues after its send on errChan was received.
RFAfterSend(pc) ==
    CASE pc = "sendFetchErr" -> "closeOut"
      [] pc = "sendDecodeErr" -> "closeBody"
      [] pc = "sendScanErr" -> "closeReader"
      [] pc = "sendReaderCloseErr" -> "closeBody"
      [] pc = "sendCloseErr" -> "closeOut"

RFSendErrPcs == {"sendFetchErr", "sendDecodeErr", "sendScanErr",
                 "sendReaderCloseErr", "sendCloseErr"}

\* errChan <- err: the caller receives the error.
RFSendErr ==
    /\ producer.pc \in RFSendErrPcs
    /\ rfReceiving
    /\ rfMode \in {"select", "recvErr"}
    /\ rfMode' = IF rfMode = "recvErr" THEN "released" ELSE rfMode
    /\ errChan' = Append(errChan, producer.err)
    /\ producer' = [producer EXCEPT !.pc = RFAfterSend(producer.pc)]
    /\ UNCHANGED <<helperVars, fanVars, rfCtxDone, rfReceiving, file, object, initialBufferSize, maxBufferSize, out,
                   outClosed>>

\* deferred reader.Close(): an error is sent on errChan.
RFCloseReader ==
    /\ producer.pc = "closeReader"
    /\ \E failed \in CloseErrs(producer.reader.kind) :
          producer' = [producer EXCEPT
                          !.pc = IF failed THEN "sendReaderCloseErr" ELSE "closeBody",
                          !.err = IF failed THEN "readerCloseErr" ELSE @,
                          !.readerClosed = TRUE]
    /\ UNCHANGED <<helperVars, fanVars, callerVars, file, object, initialBufferSize, maxBufferSize, out,
                   outClosed, errChan>>

\* deferred Body.Close(): an error is sent on errChan.
RFCloseBody ==
    /\ producer.pc = "closeBody"
    /\ \E failed \in BOOLEAN :
          producer' = [producer EXCEPT
                          !.pc = IF failed THEN "sendCloseErr" ELSE "closeOut",
                          !.err = IF failed THEN "closeErr" ELSE @,
                          !.bodyClosed = TRUE]
    /\ UNCHANGED <<helperVars, fanVars, callerVars, file, object, initialBufferSize, maxBufferSize, out,
                   outClosed, errChan>>

\* RFCloseOut that may also close out as soon as the scan is over, ahead of
\* the deferred closes.
RFCloseOut_Early ==
    \/ /\ producer.pc = "closeOut"
       /\ outClosed' = TRUE
       /\ producer' = [producer EXCEPT !.pc = "exited"]
       /\ UNCHANGED <<helperVars, fanVars, callerVars, file, object, initialBufferSize,
                      maxBufferSize, out, errChan>>
    \/ /\ producer.pc = "closeReader"
       /\ ~outClosed
       /\ outClosed' = TRUE
       /\ UNCHANGED <<helperVars, fanVars, callerVars, file, object, initialBufferSize,
                      maxBufferSize, out, errChan, producer>>

\* deferred close(out)
RFCloseOut ==
    /\ producer.pc = "closeOut"
    /\ outClosed' = TRUE
    /\ producer' = [producer EXCEPT !.pc = "exited"]
    /\ UNCHANGED <<helperVars, fanVars, callerVars, file, object, initialBufferSize, maxBufferSize, out,
                   errChan>>

NextReadFile ==
    \/ RFGetObject
    \/ RFDecode
    \/ RFScan
    \/ RFSendLine
    \/ RFSendErr
    \/ RFCloseReader
    \/ RFCloseBody
    \/ RFCloseOut

\* The caller cancels the ctx it passed to ReadFile.
RFCancel ==
    /\ ~rfCtxDone
    /\ rfCtxDone' = TRUE
    /\ UNCHANGED <<helperVars, fanVars, rfReceiving, rfMode, file, object, initialBufferSize,
                   maxBufferSize, producer, out, outClosed, errChan>>

\* The caller stops receiving from the two channels ReadFile returned.
RFStopReceiving ==
    /\ rfReceiving
    /\ rfReceiving' = FALSE
    /\ UNCHANGED <<helperVars, fanVars, rfCtxDone, rfMode, file, object, initialBufferSize,
                   maxBufferSize, producer, out, outClosed, errChan>>

\* ReadFile with a caller that may cancel and may stop receiving.
NextReadFileCtx ==
    \/ RFGetObject
    \/ RFDecode
    \/ RFScan
    \/ RFSendLine
    \/ RFSendErr
    \/ RFCloseReader
    \/ RFCloseBody
    \/ RFCloseOut
    \/ RFCancel
    \/ RFStopReceiving

\* The ways a caller receives: a select on both channels, as the test of
\* ReadFile does, or a range over out followed by one receive from errChan.
CallerModes == {"select", "drain"}

\* ReadFile returns its channels to a caller of either kind.
InitReadFileDrain ==
    /\ \E o \in Objects : file = o.file /\ object = o.bytes
    /\ initialBufferSize \in BufferSizes
    /\ maxBufferSize \in 1..MaxBuf
    /\ producer = [IdleTask EXCEPT !.pc = "GetObject"]
    /\ out = <<>>
    /\ outClosed = FALSE
    /\ errChan = <<>>
    /\ rfCtxDone = FALSE
    /\ rfReceiving = TRUE
    /\ rfMode \in CallerModes

\* The caller's range over out ends when out is closed; the caller goes on
\* to its receive from errChan.
RFRangeEnds ==
    /\ rfMode = "drain"
    /\ outClosed
    /\ rfMode' = "recvErr"
    /\ UNCHANGED <<helperVars, fanVars, rfCtxDone, rfReceiving, file, object,
                   initialBufferSize, maxBufferSize, producer, out, outClosed, errChan>>

NextReadFileDrain ==
    \/ RFGetObject
    \/ RFDecode
    \/ RFScan
    \/ RFSendLine
    \/ RFSendErr
    \/ RFCloseReader
    \/ RFCloseBody
    \/ RFCloseOut
    \/ RFRangeEnds

NextReadFiles ==
    \/ MakeSemaphore
    \/ Dispatch
    \/ StartWaiter
    \/ SelectCtxDone
    \/ SelectDone
    \/ \E i \in Entries : SelectErr(i)
    \/ WaitReturn
    \/ \E i \in Entries : GetObject(i)
    \/ \E i \in Entries : Decode(i)
    \/ \E i \in Entries : Scan(i)
    \/ \E i \in Entries : SendLine(i)
    \/ \E i \in Entries : CloseReader(i)
    \/ \E i \in Entries : CloseBody(i)
    \/ \E i \in Entries : WgDone(i)
    \/ \E i \in Entries : Release(i)
    \/ Cancel

\* ------------------------------------------------------------------------
\* GetFileReader called on its own: a filename, a reader, one call
\* ------------------------------------------------------------------------
Names ==
    {KeyA, KeyB,
     <<"c", ".", "g", "z">>,
     <<"d", ".", "G", "z", "I", "p">>,
     <<"e", ".", "T", "A", "R">>,
     <<"x", ".", "t", "a", "r">>,
     <<"f", ".", "t", "a", "r", ".", "g", "z">>,
     <<"g", ".", "g", "z", ".", "t", "x", "t">>,
     <<"d", ".", "g", "z", "/", "x">>,
     <<".", "g", "z">>,
     <<"z", ".", "t", "g", "z">>,
     <<"g", "z">>}

\* Ten plain bytes: as long as a gzip header, without the magic bytes.
PlainTen == [i \in 1..gzipHeaderLen |-> 97]

\* A gzip stream whose trailer does not fit its member.
BadGzip == SubSeq(Gzip(<<97>>), 1, gzipHeaderLen + 1) \o <<7>>

Payloads == Contents \cup {Gzip(c) : c \in Contents} \cup {PlainTen, BadGzip}

NoResult == [err |-> "pending", reader |-> NoReader]

IdleGetFileReader ==
    /\ gfName = <<>>
    /\ gfInput = NoReader
    /\ gfResult = NoResult

InitGetFileReader ==
    /\ gfName \in Names
    /\ gfInput \in {Reader("body", d, f, "readErr") : d \in Payloads, f \in ReadFailAt}
    /\ gfResult = NoResult

\* GetFileReader(filename)(r)
ApplyGetFileReader ==
    /\ gfResult = NoResult
    /\ gfResult' = GetFileReader(gfName, gfInput)
    /\ UNCHANGED <<fanVars, rfVars, lfVars, gfName, gfInput>>

NextGetFileReader == ApplyGetFileReader

\* ------------------------------------------------------------------------
\* Patterns: IsGlobPattern, GetDirPrefix, filepath.Base, doublestar.PathMatch
\* ------------------------------------------------------------------------
ContainsAny(s, chars) == \E i \in 1..Len(s) : s[i] \in chars

HasPrefix(s, prefix) ==
    Len(prefix) <= Len(s) /\ SubSeq(s, 1, Len(prefix)) = prefix

\* strings.Split(s, string(filepath.Separator))
RECURSIVE Split(_)
Split(s) ==
    LET at == IndexesOf(s, "/")
    IN IF at = {} THEN <<s>>
       ELSE LET i == CHOOSE k \in at : \A j \in at : k <= j
            IN <<SubSeq(s, 1, i - 1)>> \o Split(SubSeq(s, i + 1, Len(s)))

\* strings.Join(parts, string(filepath.Separator))
RECURSIVE Join(_)
Join(parts) ==
    IF Len(parts) = 0 THEN <<>>
    ELSE IF Len(parts) = 1 THEN parts[1]
    ELSE parts[1] \o <<"/">> \o Join(Tail(parts))

IsGlobPattern(s) == ContainsAny(s, {"*", "?", "[", "\\"})

\* The loop of GetDirPrefix: i runs from len(parts)-1 down to 0 and every
\* part with a wildcard overwrites lastWildcardIndex.
RECURSIVE WildcardLoop(_, _, _)
WildcardLoop(parts, i, lastWildcardIndex) ==
    IF i < 0 THEN lastWildcardIndex
    ELSE WildcardLoop(parts, i - 1,
                      IF ContainsAny(parts[i + 1], {"*", "?", "["})
                      THEN i ELSE lastWildcardIndex)

\* The loop of GetDirPrefix, leaving at the first wildcard it meets.
RECURSIVE WildcardLoop_Break(_, _, _)
WildcardLoop_Break(parts, i, lastWildcardIndex) ==
    IF i < 0 THEN lastWildcardIndex
    ELSE IF ContainsAny(parts[i + 1], {"*", "?", "["}) THEN i
    ELSE WildcardLoop_Break(parts, i - 1, lastWildcardIndex)

\* GetDirPrefix with the loop that leaves at the first wildcard it meets.
GetDirPrefix_Break(glob) ==
    LET parts == Split(glob)
        lastWildcardIndex == WildcardLoop_Break(parts, Len(parts) - 1, 0 - 1)
    IN IF lastWildcardIndex >= 0
       THEN Join(SubSeq(parts, 1, lastWildcardIndex))
       ELSE glob
GetDirPrefix(glob) ==
    LET parts == Split(glob)
        lastWildcardIndex == WildcardLoop(parts, Len(parts) - 1, 0 - 1)
    IN IF lastWildcardIndex >= 0
       THEN Join(SubSeq(parts, 1, lastWildcardIndex))
       ELSE glob

\* filepath.Base
Base(path) ==
    IF path = <<>> THEN <<".">>
    ELSE LET names == {i \in 1..Len(path) : path[i] # "/"}
         IN IF names = {} THEN <<"/">>
            ELSE LET last == CHOOSE i \in names : \A j \in names : j <= i
                     seps == {i \in 1..last : path[i] = "/"}
                     from == IF seps = {} THEN 0
                             ELSE CHOOSE i \in seps : \A j \in seps : j <= i
                 IN SubSeq(path, from + 1, last)

\* The byte of a character, for the ranges of a character class.
Code(c) ==
    CASE c = "*" -> 42
      [] c = "-" -> 45
      [] c = "." -> 46
      [] c = "/" -> 47
      [] c = "?" -> 63
      [] c = "[" -> 91
      [] c = "\\" -> 92
      [] c = "]" -> 93
      [] c = "^" -> 94
      [] c = "a" -> 97
      [] c = "b" -> 98
      [] OTHER -> 120

\* doublestar's indexRuneWithEscaping: the 0-based index of the first r of s
\* that has no backslash right before it, -1 when there is none.
RECURSIVE indexRuneWithEscaping(_, _)
indexRuneWithEscaping(s, r) ==
    LET at == IndexesOf(s, r)
    IN IF at = {} THEN 0 - 1
       ELSE LET end == (CHOOSE k \in at : \A j \in at : k <= j) - 1
            IN IF end > 0 /\ s[end] = "\\"
               THEN LET start == end + 1
                        next == indexRuneWithEscaping(SubSeq(s, start + 1, Len(s)), r)
                    IN IF next = 0 - 1 THEN 0 - 1 ELSE next + start
               ELSE end

\* The loop of doublestar's splitPathOnSeparator from the 0-based position
\* start; a separator at the very end leaves an empty last component.
RECURSIVE SplitFrom(_, _)
SplitFrom(path, start) ==
    LET end == indexRuneWithEscaping(SubSeq(path, start + 1, Len(path)), "/")
    IN IF end = 0 - 1 THEN <<SubSeq(path, start + 1, Len(path))>>
       ELSE LET component == SubSeq(path, start + 1, start + end)
            IN IF start + end + 1 < Len(path)
               THEN <<component>> \o SplitFrom(path, start + end + 1)
               ELSE <<component, <<>>>>

splitPathOnSeparator(path) ==
    IF IndexesOf(path, "/") = {} THEN <<path>> ELSE SplitFrom(path, 0)

\* The character class loop of doublestar's matchComponent from the 1-based
\* position i: "bad" for a malformed class, else whether nameRune is in one
\* of its ranges.
RECURSIVE ClassLoop(_, _, _, _)
ClassLoop(classRunes, i, nameRune, matchClass) ==
    IF i > Len(classRunes) THEN (IF matchClass THEN "in" ELSE "out")
    ELSE IF classRunes[i] = "-" THEN "bad"
    ELSE IF classRunes[i] = "\\" /\ i + 1 > Len(classRunes) THEN "bad"
    ELSE LET low == IF classRunes[i] = "\\" THEN classRunes[i + 1] ELSE classRunes[i]
             j == IF classRunes[i] = "\\" THEN i + 2 ELSE i + 1
         IN IF j <= Len(classRunes) /\ classRunes[j] = "-"
            THEN IF j + 1 > Len(classRunes) THEN "bad"
                 ELSE IF classRunes[j + 1] = "-" THEN "bad"
                 ELSE IF classRunes[j + 1] = "\\" /\ j + 2 > Len(classRunes) THEN "bad"
                 ELSE LET high == IF classRunes[j + 1] = "\\"
                                  THEN classRunes[j + 2] ELSE classRunes[j + 1]
                          k == IF classRunes[j + 1] = "\\" THEN j + 3 ELSE j + 2
                      IN ClassLoop(classRunes, k, nameRune,
                                   matchClass \/ (Code(low) <= Code(nameRune)
                                                  /\ Code(nameRune) <= Code(high)))
            ELSE ClassLoop(classRunes, j, nameRune, matchClass \/ low = nameRune)

\* doublestar's matchComponent: "match", "nomatch" or "bad" (ErrBadPattern).
\* MatchLoop is its loop over the rest of the pattern and of the name, with
\* the checks that follow the loop.  (The patterns of the model have no '{'.)
RECURSIVE matchComponent(_, _)
RECURSIVE MatchLoop(_, _)
MatchLoop(pattern, name) ==
    IF Len(pattern) > 0 /\ Len(name) > 0
    THEN LET patRune == pattern[1]
             nameRune == name[1]
         IN IF patRune = "\\"
            THEN IF Len(pattern) = 1 THEN "bad"
                 ELSE IF pattern[2] = nameRune
                 THEN MatchLoop(SubSeq(pattern, 3, Len(pattern)), Tail(name))
                 ELSE "nomatch"
            ELSE IF patRune = "*"
            THEN IF Len(pattern) = 1 THEN "match"
                 ELSE IF \E k \in 0..(Len(name) - 1) :
                            matchComponent(Tail(pattern),
                                           SubSeq(name, k + 1, Len(name))) = "match"
                 THEN "match" ELSE "nomatch"
            ELSE IF patRune = "["
            THEN LET rest == Tail(pattern)
                     endClass == indexRuneWithEscaping(rest, "]")
                 IN IF endClass = 0 - 1 THEN "bad"
                    ELSE IF endClass = 0 THEN "bad"
                    ELSE LET classRunes == SubSeq(rest, 1, endClass)
                             negated == classRunes[1] = "^"
                             class == ClassLoop(classRunes, IF negated THEN 2 ELSE 1,
                                                nameRune, FALSE)
                         IN IF class = "bad" THEN "bad"
                            ELSE IF (class = "in") = negated THEN "nomatch"
                            ELSE MatchLoop(SubSeq(rest, endClass + 2, Len(rest)),
                                           Tail(name))
            ELSE IF patRune = "?" \/ patRune = nameRune
            THEN MatchLoop(Tail(pattern), Tail(name))
            ELSE "nomatch"
    ELSE IF Len(pattern) = 0 /\ Len(name) = 0 THEN "match"
    ELSE IF (Len(name) = 0 /\ pattern = <<"*">>) \/ pattern = <<"*", "*">> THEN "match"
    ELSE "nomatch"

matchComponent(pattern, name) ==
    IF Len(pattern) = 0 /\ Len(name) = 0 THEN "match"
    ELSE IF Len(pattern) = 0 THEN "nomatch"
    ELSE IF Len(name) = 0 /\ pattern # <<"*">> THEN "nomatch"
    ELSE MatchLoop(pattern, name)

\* doublestar's doMatching on the components of the pattern and of the name.
RECURSIVE doMatching(_, _)
doMatching(patternComponents, nameComponents) ==
    IF Len(patternComponents) > 0 /\ Len(nameComponents) > 0
    THEN IF patternComponents[1] = <<"*", "*">>
         THEN IF Len(patternComponents) = 1 THEN "match"
              ELSE IF \E k \in 0..(Len(nameComponents) - 1) :
                         doMatching(Tail(patternComponents),
                                    SubSeq(nameComponents, k + 1, Len(nameComponents)))
                             = "match"
              THEN "match" ELSE "nomatch"
         ELSE LET matched == matchComponent(patternComponents[1], nameComponents[1])
              IN IF matched # "match" THEN matched
                 ELSE doMatching(Tail(patternComponents), Tail(nameComponents))
    ELSE IF Len(patternComponents) = 0 /\ Len(nameComponents) = 0 THEN "match"
    ELSE "nomatch"

\* doublestar.PathMatch
PathMatch(pattern, name) ==
    doMatching(splitPathOnSeparator(pattern), splitPathOnSeparator(name))

\* The match function with whole keys compared where the code compares
\* base names.
Matches_WholeKey(pattern, objectName) ==
    IF IsGlobPattern(pattern)
    THEN PathMatch(pattern, objectName) = "match"
    ELSE pattern = objectName
\* The match function that drops the error of PathMatch.
Matches_ErrorIgnored(pattern, objectName) ==
    IF IsGlobPattern(pattern)
    THEN PathMatch(pattern, objectName) # "nomatch"
    ELSE Base(pattern) = Base(objectName)
\* The match function ListFiles hands to listAndMatch.
Matches(pattern, objectName) ==
    IF IsGlobPattern(pattern)
    THEN PathMatch(pattern, objectName) = "match"
    ELSE Base(pattern) = Base(objectName)

\* ------------------------------------------------------------------------
\* ListFiles
\* ------------------------------------------------------------------------
MaxPat == 3
MaxObjects == 2

PatChars == {"a", "b", "/", "*", "?", "[", "]", "\\"}
Patterns == SeqsUpTo(PatChars, MaxPat)

ObjectKeys == {<<"a">>, <<"b">>, <<"a", "/", "a">>, <<"a", "/", "b">>}
Buckets == SeqsUpTo(ObjectKeys, MaxObjects)

NoListing == [files |-> <<>>, err |-> "none"]

IdleListFiles ==
    /\ lfPattern = <<>>
    /\ lfObjects = <<>>
    /\ lfpc = "idle"
    /\ lfPrefix = <<>>
    /\ lfPages = <<>>
    /\ lfFiles = <<>>
    /\ lfRet = NoListing

InitListFiles ==
    /\ lfPattern \in Patterns
    /\ lfObjects \in Buckets
    /\ lfpc = "start"
    /\ lfPrefix = <<>>
    /\ lfPages = <<>>
    /\ lfFiles = <<>>
    /\ lfRet = NoListing

\* The keys of the pages, in page order.
RECURSIVE Flatten(_)
Flatten(pages) ==
    IF Len(pages) = 0 THEN <<>> ELSE pages[1] \o Flatten(Tail(pages))

\* What the store lists for the request: the keys that begin with Prefix.
Listed == SelectSeq(lfObjects, LAMBDA k : HasPrefix(k, lfPrefix))

\* p.HasMorePages(): the first page, then as long as keys are left.
HasMorePages == lfPages = <<>> \/ Len(Flatten(lfPages)) < Len(Listed)

\* prefix := GetDirPrefix(pattern); s3.NewListObjectsV2Paginator(c.Svc, params)
LFStart ==
    /\ lfpc = "start"
    /\ lfPrefix' = GetDirPrefix(lfPattern)
    /\ lfpc' = "paging"
    /\ UNCHANGED <<fanVars, rfVars, gfVars, lfPattern, lfObjects, lfPages, lfFiles, lfRet>>

\* NextPage with a page that replaces what was appended before.
LFNextPage_Overwrite ==
    /\ lfpc = "paging"
    /\ HasMorePages
    /\ \/ /\ lfRet' = [files |-> lfFiles, err |-> "listErr"]
          /\ lfpc' = "returned"
          /\ UNCHANGED <<lfPages, lfFiles>>
       \/ \E n \in 0..(Len(Listed) - Len(Flatten(lfPages))) :
             /\ n = 0 => Len(Listed) = 0
             /\ LET from == Len(Flatten(lfPages))
                    page == SubSeq(Listed, from + 1, from + n)
                IN /\ lfPages' = Append(lfPages, page)
                   /\ lfFiles' = SelectSeq(page, LAMBDA k : Matches(lfPattern, k))
             /\ UNCHANGED <<lfpc, lfRet>>
    /\ UNCHANGED <<fanVars, rfVars, gfVars, lfPattern, lfObjects, lfPrefix>>

\* One turn of the loop: p.NextPage(ctx) fails and ListFiles returns files
\* with the wrapped error, or the matching keys of the page are appended.
LFNextPage ==
    /\ lfpc = "paging"
    /\ HasMorePages
    /\ \/ /\ lfRet' = [files |-> lfFiles, err |-> "listErr"]
          /\ lfpc' = "returned"
          /\ UNCHANGED <<lfPages, lfFiles>>
       \/ \E n \in 0..(Len(Listed) - Len(Flatten(lfPages))) :
             /\ n = 0 => Len(Listed) = 0
             /\ LET from == Len(Flatten(lfPages))
                    page == SubSeq(Listed, from + 1, from + n)
                IN /\ lfPages' = Append(lfPages, page)
                   /\ lfFiles' = lfFiles \o SelectSeq(page, LAMBDA k : Matches(lfPattern, k))
             /\ UNCHANGED <<lfpc, lfRet>>
    /\ UNCHANGED <<fanVars, rfVars, gfVars, lfPattern, lfObjects, lfPrefix>>

\* The loop is over: return files, nil
LFReturn ==
    /\ lfpc = "paging"
    /\ ~HasMorePages
    /\ lfRet' = [files |-> lfFiles, err |-> "nil"]
    /\ lfpc' = "returned"
    /\ UNCHANGED <<fanVars, rfVars, gfVars, lfPattern, lfObjects, lfPrefix, lfPages, lfFiles>>

NextListFiles ==
    \/ LFStart
    \/ LFNextPage
    \/ LFReturn

\* GetDirPrefix on its own, on longer patterns.
MaxGlob == 5
GlobChars == {"a", "/", "*", "\\"}
Globs == SeqsUpTo(GlobChars, MaxGlob)

InitGetDirPrefix ==
    /\ lfPattern \in Globs
    /\ lfObjects = <<>>
    /\ lfpc = "start"
    /\ lfPrefix = <<>>
    /\ lfPages = <<>>
    /\ lfFiles = <<>>
    /\ lfRet = NoListing

NextGetDirPrefix == LFStart

vars == <<fanVars, rfVars, helperVars>>

IdleHelpers == IdleGetFileReader /\ IdleListFiles

\* ReadFiles runs, ReadFile does not.
Init == InitReadFiles /\ IdleReadFile /\ IdleHelpers

Next == NextReadFiles

Spec == Init /\ [][Next]_vars

\* ReadFile runs, ReadFiles does not.
ReadFileInit == InitReadFile /\ IdleReadFiles /\ IdleHelpers

SpecReadFile == ReadFileInit /\ [][NextReadFile]_vars

\* ReadFile runs with a caller that may cancel its ctx and may stop
\* receiving.
ReadFileCtxInit == InitReadFile /\ IdleReadFiles /\ IdleHelpers

SpecReadFileCtx == ReadFileCtxInit /\ [][NextReadFileCtx]_vars

\* One call of either function: ReadFiles or ReadFile.
ReadCallInit ==
    \/ InitReadFiles /\ IdleReadFile /\ IdleHelpers
    \/ InitReadFile /\ IdleReadFiles /\ IdleHelpers

NextReadCall ==
    \/ MakeSemaphore
    \/ Dispatch
    \/ StartWaiter
    \/ SelectCtxDone
    \/ SelectDone
    \/ \E i \in Entries : SelectErr(i)
    \/ WaitReturn
    \/ \E i \in Entries : GetObject(i)
    \/ \E i \in Entries : Decode(i)
    \/ \E i \in Entries : Scan(i)
    \/ \E i \in Entries : SendLine(i)
    \/ \E i \in Entries : CloseReader(i)
    \/ \E i \in Entries : CloseBody(i)
    \/ \E i \in Entries : WgDone(i)
    \/ \E i \in Entries : Release(i)
    \/ Cancel
    \/ RFGetObject
    \/ RFDecode
    \/ RFScan
    \/ RFSendLine
    \/ RFSendErr
    \/ RFCloseReader
    \/ RFCloseBody
    \/ RFCloseOut

SpecReadCall == ReadCallInit /\ [][NextReadCall]_vars

\* One call of the function GetFileReader returns.
GetFileReaderInit ==
    InitGetFileReader /\ IdleListFiles /\ IdleReadFiles /\ IdleReadFile

SpecGetFileReader == GetFileReaderInit /\ [][NextGetFileReader]_vars

\* One call of ListFiles.
ListFilesInit ==
    InitListFiles /\ IdleGetFileReader /\ IdleReadFiles /\ IdleReadFile

SpecListFiles == ListFilesInit /\ [][NextListFiles]_vars

\* One call of GetDirPrefix, as ListFiles makes it.
GetDirPrefixInit ==
    InitGetDirPrefix /\ IdleGetFileReader /\ IdleReadFiles /\ IdleReadFile

SpecGetDirPrefix == GetDirPrefixInit /\ [][NextGetDirPrefix]_vars

\* The scheduler runs every goroutine that can take a step, and the
\* consumer of the sink keeps receiving; the context may or may not be
\* cancelled.
FairSpec ==
    /\ Spec
    /\ WF_vars(Coordinator)
    /\ WF_vars(WaitReturn)
    /\ \A i \in 1..MaxFiles : WF_vars(i \in Entries /\ Task(i))
    /\ \A i \in 1..MaxFiles : WF_vars(i \in Entries /\ SendLine(i))

\* ReadFile's goroutine is scheduled whenever it can take a step, and the
\* caller receives what it sends.
FairSpecReadFile == SpecReadFile /\ WF_vars(NextReadFile)

\* ReadFile runs with a caller that selects on both channels or one that
\* drains out and then receives once from errChan.
ReadFileDrainInit == InitReadFileDrain /\ IdleReadFiles /\ IdleHelpers

SpecReadFileDrain == ReadFileDrainInit /\ [][NextReadFileDrain]_vars

\* ReadFile's goroutine is scheduled whenever it can take a step; the
\* caller is free to cancel and to stop receiving.
FairSpecReadFileCtx == SpecReadFileCtx /\ WF_vars(NextReadFile)

\* ------------------------------------------------------------------------
\* Properties
\* ------------------------------------------------------------------------

\* The lines of a byte stream: split at '\n', a trailing '\r' dropped, no
\* line after a final '\n'.
RECURSIVE Lines(_)
Lines(d) ==
    IF d = <<>> THEN <<>>
    ELSE LET nls == IndexesOf(d, NL)
         IN IF nls = {} THEN <<dropCR(d)>>
            ELSE LET i == CHOOSE k \in nls : \A j \in nls : k <= j
                 IN <<dropCR(SubSeq(d, 1, i - 1))>> \o Lines(SubSeq(d, i + 1, Len(d)))

\* The tasks that hold a slot: started, slot not yet released.
InFlight == {i \in Entries : tasks[i].pc \notin {"idle", "exited"}}

\* The task of entry i reached its outcome (clean completion or error).
Terminal(i) == tasks[i].pc \in {"release", "exited"}

\* The task of entry i reached its outcome without any error.
Clean(i) ==
    /\ tasks[i].pc \in {"wgDone", "release", "exited"}
    /\ ~tasks[i].panicking
    /\ tasks[i].err = "nil"
    /\ errLog[i] = <<>>

\* The texts of the records the consumer received for key k, in order.
RawOf(k) ==
    LET recs == SelectSeq(ch, LAMBDA m : m.file = k)
    IN [n \in 1..Len(recs) |-> recs[n].raw]

OnceInFiles(i) == Cardinality({j \in Entries : files[j] = files[i]}) = 1

\* Every line of every entry that ended cleanly was received by the consumer.
CleanDelivered ==
    \A i \in Entries :
        Clean(i) =>
            \A n \in 1..Len(Lines(Store(files[i]))) :
                \E m \in 1..Len(ch) :
                    ch[m] = Message(files[i], Lines(Store(files[i]))[n])

\* C1: with a concurrency >= 0, a context that is never cancelled and a
\* consumer that keeps receiving, ReadFiles eventually returns nil with
\* every line of the keys that did not fail delivered, wherever in the key
\* list a key's GetObject fails (a run that ends in a panic aside).
C1_EventuallyReturnsNil ==
    (concurrency >= 0) => <>(panicked \/ cancelled \/ (ret = "nil" /\ CleanDelivered))

\* C2: with a concurrency c >= 1 the number of tasks that were started and
\* have not released their slot is at most c.
C2_InFlightAtMostConcurrency ==
    concurrency >= 1 => Cardinality(InFlight) <= concurrency

C2_Witness ==
    /\ concurrency >= 1
    /\ Cardinality(InFlight) = concurrency
    /\ mpc = "range"
    /\ idx < Len(files)

\* C3: once the context is cancelled during a run, ReadFiles eventually
\* returns, whatever the stage of the run (the return is the context's
\* error, or nil when the receive from done was chosen first; a run that
\* ends in a panic aside).
C3_ReturnsAfterCancel ==
    (concurrency >= 0) => (cancelled ~> (panicked \/ ret = "ctxErr" \/ ret = "nil"))

\* C4: ReadFiles returns nil only when a task was started for every entry
\* of the key list and each of them reached its outcome.
C4_NilOnlyAfterAllTerminal ==
    ret = "nil" => (idx = Len(files) /\ \A i \in Entries : Terminal(i))

C4_Witness ==
    /\ ret = "nil"
    /\ Len(files) >= 2
    /\ \E i \in Entries : errLog[i] # <<>>
    /\ \E i \in Entries : Clean(i)

\* C5: a concurrency <= 0 behaves as concurrency 1: no crash, and one task
\* admitted at a time.
C5_NonPositiveIsOne ==
    concurrency <= 0 => (~panicked /\ Cardinality(InFlight) <= 1)

\* C6: when ReadFiles returns nil, GetObject was called exactly once for
\* each entry of the key list.
C6_OneGetObjectPerEntry ==
    ret = "nil" => \A i \in Entries : getCalls[i] = 1

C6_Witness ==
    /\ ret = "nil"
    /\ Len(files) >= 2
    /\ files[1] = files[2]
    /\ \E i \in Entries : tasks[i].fetch = "failed"

C8_LinesInSourceOrder ==
    \A i \in Entries :
        (Clean(i) /\ OnceInFiles(i)) => RawOf(files[i]) = Lines(Store(files[i]))

C8_Witness ==
    /\ Len(ch) = 3
    /\ ch[1].file = KeyA /\ ch[2].file = KeyB /\ ch[3].file = KeyA
    /\ \A i \in Entries : Clean(i) /\ tasks[i].pc = "exited"

\* C9: when GetObject fails in ReadFile, no line is ever delivered, at most
\* one error is, and (the caller receiving it) the fetch error is delivered
\* and the line channel is closed.
C9_FetchFailure ==
    /\ [](producer.fetch = "failed" => (out = <<>> /\ Len(errChan) <= 1))
    /\ [](producer.fetch = "failed" /\ outClosed => errChan = <<"fetchErr">>)
    /\ (producer.fetch = "failed") ~> (outClosed /\ errChan = <<"fetchErr">>)

C9_Witness ==
    /\ producer.fetch = "failed"
    /\ producer.pc = "exited"

\* The first line of the sequence L longer than n (0 when there is none).
FirstLonger(L, n) ==
    LET long == {j \in 1..Len(L) : Len(L[j]) > n}
    IN IF long = {} THEN 0 ELSE CHOOSE j \in long : \A k \in long : j <= k

\* C10: when the object read by ReadFile has a line longer than
\* maxBufferSize, the error delivered is ErrTooLong, the lines before that
\* line were delivered in order, and nothing of that line is delivered.
C10_TooLongLine ==
    LET L == Lines(producer.reader.data)
        j == FirstLonger(L, maxBufferSize)
    IN (/\ producer.pc = "exited"
        /\ producer.fetch = "ok"
        /\ producer.reader.kind # "none"
        /\ producer.reader.failAt = NoFail
        /\ j > 0)
       => (/\ errChan # <<>>
           /\ errChan[1] = "ErrTooLong"
           /\ out = SubSeq(L, 1, j - 1))

\* The object of a ReadFile run is one line (with or without its '\n')
\* that was fetched, decoded and read without a read error.
OneLine ==
    LET d == producer.reader.data
    IN IF Len(d) > 0 /\ d[Len(d)] = NL THEN SubSeq(d, 1, Len(d) - 1) ELSE d

ReadOneLine ==
    /\ producer.pc = "exited"
    /\ producer.fetch = "ok"
    /\ producer.reader.kind # "none"
    /\ producer.reader.failAt = NoFail
    /\ Len(OneLine) > 0
    /\ \A n \in 1..Len(OneLine) : OneLine[n] \notin {NL, CR}

\* C11: a line of exactly maxBufferSize bytes is delivered, a line one byte
\* longer fails with ErrTooLong.
C11_BoundaryLine ==
    ReadOneLine =>
        /\ Len(OneLine) = maxBufferSize =>
              (out = <<OneLine>> /\ \A n \in 1..Len(errChan) : errChan[n] # "ErrTooLong")
        /\ Len(OneLine) = maxBufferSize + 1 =>
              (out = <<>> /\ errChan # <<>> /\ errChan[1] = "ErrTooLong")

\* C12: when a listing page fails, the first or a later one, ListFiles
\* returns an error and an empty key list.
C12_ErrorMeansNoKeys ==
    (lfpc = "returned" /\ lfRet.err # "nil") => lfRet.files = <<>>

\* C13: when no page fails, ListFiles returns exactly the keys of all the
\* pages that match the pattern, in page order, duplicates kept.
C13_ExactlyTheMatches ==
    (lfpc = "returned" /\ lfRet.err = "nil") =>
        /\ Flatten(lfPages) = Listed
        /\ lfRet.files = SelectSeq(Flatten(lfPages), LAMBDA k : Matches(lfPattern, k))

C13_Witness ==
    /\ lfpc = "returned"
    /\ lfRet.err = "nil"
    /\ Len(lfPages) = 2
    /\ Len(lfRet.files) = 2
    /\ lfRet.files[1] = lfRet.files[2]

\* C14: a pattern with none of * ? [ \ is not a glob pattern, and ListFiles
\* keeps a listed key exactly when its base name is the pattern's.
Literal(s) == \A i \in 1..Len(s) : s[i] \notin {"*", "?", "[", "\\"}

C14_LiteralKeepsBaseName ==
    Literal(lfPattern) =>
        /\ ~IsGlobPattern(lfPattern)
        /\ (lfpc = "returned" /\ lfRet.err = "nil") =>
              lfRet.files = SelectSeq(Flatten(lfPages),
                                      LAMBDA k : Base(k) = Base(lfPattern))

C14_Witness ==
    /\ Literal(lfPattern)
    /\ lfpc = "returned"
    /\ lfRet.err = "nil"
    /\ Len(Flatten(lfPages)) = 2
    /\ Len(lfRet.files) = 1
    /\ lfRet.files[1] # lfPattern

\* C15: GetDirPrefix returns what comes before the separator in front of
\* the first segment that holds one of * ? [ (nothing when that is the
\* first segment), and the pattern itself when no segment holds one.
WildcardAt == {i \in 1..Len(lfPattern) : lfPattern[i] \in {"*", "?", "["}}

C15_PrefixBeforeFirstWildcard ==
    lfpc = "paging" =>
        IF WildcardAt = {} THEN lfPrefix = lfPattern
        ELSE LET w == CHOOSE i \in WildcardAt : \A j \in WildcardAt : i <= j
                 seps == {i \in 1..w : lfPattern[i] = "/"}
             IN IF seps = {} THEN lfPrefix = <<>>
                ELSE lfPrefix = SubSeq(lfPattern, 1,
                                       (CHOOSE i \in seps : \A j \in seps : j <= i) - 1)

C15_Witness ==
    /\ lfpc = "paging"
    /\ lfPattern = <<"a", "/", "*", "/", "*">>
    /\ lfPrefix = <<"a">>

\* The name ends with the extension e, in any case: e is its last
\* len(e) characters, lower-cased, and the dot of e is the name's final dot
\* with no separator behind it.
NameEndsWith(name, e) ==
    /\ Len(name) >= Len(e)
    /\ ToLower(SubSeq(name, Len(name) - Len(e) + 1, Len(name))) = e
    /\ \A i \in (Len(name) - Len(e) + 2)..Len(name) : name[i] \notin {".", "/"}

GzipName(name) ==
    NameEndsWith(name, <<".", "g", "z">>) \/ NameEndsWith(name, <<".", "g", "z", "i", "p">>)

TarName(name) == NameEndsWith(name, <<".", "t", "a", "r">>)

\* The reader handed to GetFileReader's function can be read to its end.
ReadsToEnd(r) == r.failAt = NoFail \/ r.failAt > Len(r.data)

\* C16: under a name ending in .gz or .gzip, a payload of any length that
\* does not begin with a valid gzip header gets a reader without an error,
\* and the reader yields exactly the payload.
C16_NonGzipPayloadPassesThrough ==
    (/\ gfResult # NoResult
     /\ GzipName(gfName)
     /\ ReadsToEnd(gfInput)
     /\ GzipHeaderErr(gfInput.data) # "nil") =>
        /\ gfResult.err = "nil"
        /\ gfResult.reader.data = gfInput.data
        /\ gfResult.reader.failAt = NoFail

\* C18: the lower-cased last extension alone selects the strategy: .gz and
\* .gzip the gzip decoding, .tar the tar decoding, any other name the
\* passthrough of the reader as it is, without an error.
C18_StrategyFromExtension ==
    gfResult # NoResult =>
        IF GzipName(gfName)
        THEN /\ gfResult.reader.kind # "tar"
             /\ ~ReadsToEnd(gfInput) => gfResult.err = gfInput.rerr
             /\ (ReadsToEnd(gfInput) /\ GzipHeaderErr(gfInput.data) = "nil") =>
                   /\ gfResult.err = "nil"
                   /\ gfResult.reader.kind = "gzip"
                   /\ gfResult.reader.data = GzipPayload(gfInput.data)
        ELSE IF TarName(gfName)
        THEN gfResult.err = "nil" /\ gfResult.reader.kind = "tar"
        ELSE /\ gfResult.err = "nil"
             /\ gfResult.reader = Reader("nop", gfInput.data, gfInput.failAt, gfInput.rerr)

C18_Witness ==
    /\ gfName = <<"d", ".", "G", "z", "I", "p">>
    /\ gfResult.err = "nil"
    /\ gfResult.reader.kind = "gzip"
    /\ gfResult.reader.data = <<97, NL, 97>>

\* The task of entry i fetched its object and is through with decoding and
\* reading it.
PastReading(i) ==
    /\ tasks[i].fetch = "ok"
    /\ tasks[i].pc \in {"closeBody", "sendCloseErr", "wgDone", "release", "exited"}

\* What the reading of entry i came to: the decoded reader, the scanner
\* with its position and error, and whether the goroutine panicked.
ReadOutcome(i) ==
    [reader |-> tasks[i].reader, sc |-> tasks[i].sc, panicking |-> tasks[i].panicking]

\* C17: the outcome of reading a key depends on the key's name and bytes
\* only: two readings of the same key with the same body that differ in the
\* declared content type, or in its absence, come to the same outcome.
C17_ContentTypeHasNoEffect ==
    \A i, j \in Entries :
        (/\ files[i] = files[j]
         /\ PastReading(i)
         /\ PastReading(j)
         /\ tasks[i].body = tasks[j].body) => ReadOutcome(i) = ReadOutcome(j)

\* C19: an error of closing the fetched stream or the decoded stream is
\* logged only: the caller never receives it on ReadFile's error channel
\* and it is never the result of ReadFiles.
C19_CloseErrorsNotDelivered ==
    /\ \A n \in 1..Len(errChan) : errChan[n] \notin {"closeErr", "readerCloseErr"}
    /\ ret \notin {"closeErr", "readerCloseErr"}

\* C20: once ReadFiles has returned on a cancelled context, every task
\* that is still in flight eventually ends, cleanly or with an error, and
\* has released its slot (the process ending in a panic aside).
C20_TasksEndAfterCancelReturn ==
    (ret = "ctxErr") ~> (panicked \/ \A i \in Entries : tasks[i].pc = "exited")

\* The streams of a read t are closed: the fetched body, and the decoded
\* reader if one was created.
StreamsClosed(t) ==
    /\ t.bodyClosed
    /\ t.reader.kind # "none" => t.readerClosed

CloseFailed == \E n \in 1..Len(errChan) : errChan[n] \in {"closeErr", "readerCloseErr"}

\* ReadFile's goroutine is over, after an object was fetched, decoded and
\* read without a read error, every line of it shorter than maxBufferSize.
ReadShortLines ==
    /\ producer.pc = "exited"
    /\ producer.fetch = "ok"
    /\ producer.reader.kind # "none"
    /\ producer.reader.failAt = NoFail
    /\ \A n \in 1..Len(Lines(producer.reader.data)) :
          Len(Lines(producer.reader.data)[n]) < maxBufferSize

\* C22: for a decoded content of n >= 0 lines, each shorter than
\* maxBufferSize, with or without a final newline, ReadFile delivers exactly
\* these lines in order, without their delimiters, delivers no error (no
\* close having failed) and closes the line channel.
C22_ShortLinesDelivered ==
    (ReadShortLines /\ ~CloseFailed) =>
        /\ out = Lines(producer.reader.data)
        /\ errChan = <<>>
        /\ outClosed

\* The names a pattern is tried on to tell whether it is malformed.
ProbeNames == SeqsUpTo({"a", "b", "/"}, MaxPat)

\* The pattern is a malformed glob expression: matching it against some
\* name ends with ErrBadPattern.
Malformed(pattern) == \E name \in ProbeNames : PathMatch(pattern, name) = "bad"

C24_FailedKeyIsolated ==
    /\ [][\A i \in Entries :
             (tasks[i].err # "nil" /\ OnceInFiles(i)) =>
                 RawOf(files[i])' = RawOf(files[i])]_vars
    /\ (concurrency >= 0) =>
          \A j \in 1..MaxFiles :
              <>(\/ j \notin Entries
                 \/ cancelled
                 \/ panicked
                 \/ tasks[j].err # "nil"
                 \/ tasks[j].pc = "exited")

\* The errors the task of entry i reported, told from the task's state once
\* it is through: the error of the fetch, of the decoding or of the scan,
\* then the error of closing the body.
ReadErrOf(i) ==
    IF tasks[i].fetch = "failed" THEN <<"fetchErr">>
    ELSE IF tasks[i].fetch = "ok" /\ ~tasks[i].panicking /\ tasks[i].reader.kind = "none"
    THEN <<GetFileReader(files[i], tasks[i].body).err>>
    ELSE IF ScannerErr(tasks[i].sc) # "nil" THEN <<ScannerErr(tasks[i].sc)>>
    ELSE <<>>

CloseErrOf(i) == IF tasks[i].err = "closeErr" THEN <<"closeErr">> ELSE <<>>

\* C25: when ReadFiles returns nil, no task is left in an error send and
\* every error a task reported was received and logged exactly once.
C25_ErrorsLoggedOnceBeforeNil ==
    ret = "nil" =>
        \A i \in Entries :
            /\ tasks[i].pc \notin SendErrPcs
            /\ errLog[i] = ReadErrOf(i) \o CloseErrOf(i)

C25_Witness ==
    /\ ret = "nil"
    /\ \E i, j \in Entries :
          /\ Len(errLog[i]) = 2
          /\ errLog[j] = <<"fetchErr">>

\* C26: the slots taken are exactly those of the tasks that started and have
\* not yet run their deferred release, never more than the pool holds; a
\* task is started only with its slot taken, gives back one slot on its
\* way out whatever its outcome, and no slot is held once every started
\* task is through.
C26_OneSlotPerTask ==
    /\ semaphore = Cardinality(InFlight)
    /\ mpc \notin {"start", "panicked"} => semaphore <= poolSize
    /\ (\A i \in Entries : tasks[i].pc \in {"idle", "exited"}) => semaphore = 0

C26_Witness ==
    /\ idx = 2
    /\ semaphore = 0
    /\ \E i, j \in Entries :
          /\ tasks[i].pc = "exited" /\ tasks[i].fetch = "failed"
          /\ tasks[j].pc = "exited" /\ ScannerErr(tasks[j].sc) # "nil"

\* The producer of ReadFile waits in a send that no one will receive.
ProducerStuck ==
    /\ producer.pc \in RFSendErrPcs \cup {"sendLine"}
    /\ ~rfReceiving

\* C27: once the ctx of ReadFile is cancelled the producer goes on to exit,
\* with the line channel, the decoded reader and the body closed, whether
\* or not the caller still receives. A caller that stopped receiving does
\* not start again, so a producer that is to exit is never, after the
\* cancellation, left waiting in a send.
C27_CancelEndsProducer == rfCtxDone => ~ProducerStuck

\* C28: whatever initialBufferSize and maxBufferSize are, initialBufferSize
\* above maxBufferSize included, the caller of ReadFile never receives a
\* line longer than maxBufferSize.
C28_NoLineAboveMax ==
    \A n \in 1..Len(out) : Len(out[n]) <= maxBufferSize

\* C29: every record the consumer received carries the bucket of the run
\* and a key of the run, and its text is a line of the object stored under
\* that key, however the tasks interleave.
C29_RecordsTaggedWithOwnKey ==
    \A n \in 1..Len(ch) :
        /\ ch[n].bucket = Bucket
        /\ \E i \in Entries : files[i] = ch[n].file
        /\ \E k \in 1..Len(Lines(Store(ch[n].file))) :
              Lines(Store(ch[n].file))[k] = ch[n].raw

C29_Witness ==
    /\ Len(ch) >= 3
    /\ ch[1].file = KeyA
    /\ ch[2].file = KeyB
    /\ ch[3].file = KeyA

\* C30: in ReadFile the line channel is closed after every error was
\* received: once out is closed no error is sent, and once an error was
\* sent no line is sent.
C30_CloseAfterErrors ==
    [][/\ outClosed => (errChan' = errChan /\ out' = out /\ outClosed')
       /\ errChan # <<>> => out' = out]_vars

C30_Witness ==
    /\ outClosed
    /\ Len(errChan) = 2
    /\ out # <<>>

\* The caller that drains out and then receives once from errChan waits
\* for something that does not come: it ranges over out while the producer
\* waits in a send on errChan, or it waits on errChan, which is never
\* closed, after the producer exited.
CallerStuck ==
    \/ rfMode = "drain" /\ producer.pc \in RFSendErrPcs
    \/ rfMode = "recvErr" /\ producer.pc = "exited"

\* C31: a caller of ReadFile that drains the line channel until it is
\* closed and then receives once from the error channel is released on
\* every path: it is never left waiting for a value that cannot come.
C31_DrainingCallerReleased == ~CallerStuck

\* C32: no channel is sent on or closed after it was closed. In ReadFiles
\* done is closed by the step that receives the waiter's one send, with
\* done not yet closed, and from then on the waiter has ended. In ReadFile
\* out is closed by the producer's last step, with out not yet closed, it
\* is closed when the producer has exited, and nothing is sent on it
\* afterwards.
C32_NoUseAfterClose ==
    [][/\ doneClosed => (doneClosed' /\ wpc = "exited" /\ wpc' = "exited")
       /\ (~doneClosed /\ doneClosed') => (wpc = "sendDone" /\ wpc' = "exited")
       /\ mpc = "returned" => doneClosed' = doneClosed
       /\ outClosed => (outClosed' /\ out' = out /\ producer.pc = "exited"
                        /\ producer' = producer)
       /\ (~outClosed /\ outClosed') => (producer.pc = "closeOut" /\ producer'.pc = "exited")
       /\ producer'.pc = "exited" => outClosed'
      ]_vars

C32_Witness ==
    /\ doneClosed
    /\ wpc = "exited"
    /\ Len(files) = 2
    /\ ch # <<>>
    /\ \E i \in Entries : errLog[i] # <<>>

\* C33: narrowing the listing by the prefix loses no match: for a glob
\* pattern, every key of the bucket that the glob match accepts begins with
\* the prefix ListFiles sends, and so is listed.
C33_PrefixKeepsEveryMatch ==
    (lfpc # "start" /\ IsGlobPattern(lfPattern)) =>
        \A n \in 1..Len(lfObjects) :
            PathMatch(lfPattern, lfObjects[n]) = "match" =>
                /\ HasPrefix(lfObjects[n], lfPrefix)
                /\ \E m \in 1..Len(Listed) : Listed[m] = lfObjects[n]

\* C34: with an empty key list and a context that is not cancelled,
\* ReadFiles does not crash, starts no task (so calls GetObject for no key),
\* sends no record, and when it has returned it has returned nil with the
\* waiting goroutine ended.
C34_EmptyListReturnsNil ==
    (files = <<>> /\ ~cancelled) =>
        /\ ~panicked
        /\ idx = 0 /\ wg = 0 /\ semaphore = 0
        /\ ch = <<>>
        /\ ret \in {"none", "nil"}
        /\ mpc = "returned" => (ret = "nil" /\ wpc = "exited" /\ doneClosed)

====
